---------------------------- MODULE Spec2Model ----------------------------
(***************************************************************************)
(* Model of the reconciliation engine (src/src/matching/matcher.py), of    *)
(* the metrics (src/src/analysis/metrics.py), of the normalizer            *)
(* (src/src/data/normalizer.py) and of the application script that runs    *)
(* them in sequence (src/src/app.py).                                      *)
(*                                                                         *)
(* Text values are sequences of one-character strings, tables are records  *)
(* [cols, rows] whose rows are functions from the table's columns to       *)
(* values, scores are exact rationals <<numerator, denominator>>,          *)
(* thresholds are in thousandths and confidences in hundredths.            *)
(***************************************************************************)
EXTENDS Integers, Sequences, FiniteSets, TLC

(***************************************************************************)
(* Bounds of the model.                                                    *)
(***************************************************************************)
MaxRows == 3
MaxSchemaRows == 1

(***************************************************************************)
(* Values.  NULL is pandas' missing value (None / NaN / NaT) in the        *)
(* job_date and identifier columns; None is a non-text value in a text     *)
(* column.                                                                 *)
(***************************************************************************)
NULL == "NULL"
None == <<"None">>

IsStr(s) == s # None

(***************************************************************************)
(* str.lower() and str.strip() on sequences of characters.                 *)
(***************************************************************************)
SmallLetters ==
    <<"a", "b", "c", "d", "e", "f", "g", "h", "i", "j", "k", "l", "m",
      "n", "o", "p", "q", "r", "s", "t", "u", "v", "w", "x", "y", "z">>

CapitalLetters ==
    <<"A", "B", "C", "D", "E", "F", "G", "H", "I", "J", "K", "L", "M",
      "N", "O", "P", "Q", "R", "S", "T", "U", "V", "W", "X", "Y", "Z">>

IndexIn(c, letters) == CHOOSE k \in 1..Len(letters) : letters[k] = c

\* the small letter of every capital, and the capital of every small letter
ToLower ==
    [c \in {CapitalLetters[k] : k \in 1..Len(CapitalLetters)} |->
        SmallLetters[IndexIn(c, CapitalLetters)]]

ToUpper ==
    [c \in {SmallLetters[k] : k \in 1..Len(SmallLetters)} |->
        CapitalLetters[IndexIn(c, SmallLetters)]]

LowerChar(c) == IF c \in DOMAIN ToLower THEN ToLower[c] ELSE c

UpperChar(c) == IF c \in DOMAIN ToUpper THEN ToUpper[c] ELSE c

IsLetter(c) == c \in DOMAIN ToLower \/ c \in DOMAIN ToUpper

Lower(s) == [k \in 1..Len(s) |-> LowerChar(s[k])]

RECURSIVE LStrip(_)
LStrip(s) == IF s # <<>> /\ Head(s) = " " THEN LStrip(Tail(s)) ELSE s

RECURSIVE RStrip(_)
RStrip(s) ==
    IF s # <<>> /\ s[Len(s)] = " " THEN RStrip(SubSeq(s, 1, Len(s) - 1)) ELSE s

Strip(s) == RStrip(LStrip(s))

Upper(s) == [k \in 1..Len(s) |-> UpperChar(s[k])]

\* str.title(): a letter that follows no letter is a capital, every other
\* letter is small
Title(s) ==
    [k \in 1..Len(s) |->
        IF k = 1 \/ ~IsLetter(s[k - 1]) THEN UpperChar(s[k]) ELSE LowerChar(s[k])]

\* str.replace(old, new): every occurrence, from the left, without overlap
RECURSIVE Replace(_, _, _)
Replace(s, old, new) ==
    IF Len(s) < Len(old) THEN s
    ELSE IF SubSeq(s, 1, Len(old)) = old
    THEN new \o Replace(SubSeq(s, Len(old) + 1, Len(s)), old, new)
    ELSE <<Head(s)>> \o Replace(Tail(s), old, new)

(***************************************************************************)
(* difflib.SequenceMatcher(None, a, b).ratio(), as _similarity uses it:    *)
(* no junk, and autojunk is inert below 200 characters.  Indices are       *)
(* Python's: 0-based, half-open ranges [alo, ahi) and [blo, bhi).          *)
(***************************************************************************)
RECURSIVE MatchLen(_, _, _, _, _, _)
MatchLen(a, b, i, j, ahi, bhi) ==
    IF i < ahi /\ j < bhi /\ a[i + 1] = b[j + 1]
    THEN 1 + MatchLen(a, b, i + 1, j + 1, ahi, bhi)
    ELSE 0

\* The longest block a[i:i+k] = b[j:j+k] within the ranges; of all the
\* longest blocks the one that starts earliest in a, and of those the one
\* that starts earliest in b; <<alo, blo, 0>> when nothing matches.
find_longest_match(a, b, alo, ahi, blo, bhi) ==
    LET Pos == (alo..(ahi - 1)) \X (blo..(bhi - 1))
        L(p) == MatchLen(a, b, p[1], p[2], ahi, bhi)
        Best == {p \in Pos : \A q \in Pos : L(q) <= L(p)}
    IN  IF Pos = {} \/ \A p \in Pos : L(p) = 0
        THEN <<alo, blo, 0>>
        ELSE LET p == CHOOSE p \in Best :
                          \A q \in Best :
                              \/ p[1] < q[1]
                              \/ (p[1] = q[1] /\ p[2] <= q[2])
             IN  <<p[1], p[2], L(p)>>

\* The total size of the matching blocks found by the recursion of
\* get_matching_blocks: the longest block, then the same to its left and
\* to its right.
RECURSIVE get_matching_blocks(_, _, _, _, _, _)
get_matching_blocks(a, b, alo, ahi, blo, bhi) ==
    LET m == find_longest_match(a, b, alo, ahi, blo, bhi)
        i == m[1]
        j == m[2]
        k == m[3]
    IN  IF k = 0 THEN 0
        ELSE k
             + (IF alo < i /\ blo < j
                THEN get_matching_blocks(a, b, alo, i, blo, j) ELSE 0)
             + (IF i + k < ahi /\ j + k < bhi
                THEN get_matching_blocks(a, b, i + k, ahi, j + k, bhi) ELSE 0)

\* Mutant of ratio: the matches are counted once.
ratio_single(a, b) ==
    IF Len(a) + Len(b) = 0 THEN <<1, 1>>
    ELSE <<get_matching_blocks(a, b, 0, Len(a), 0, Len(b)), Len(a) + Len(b)>>

\* 2.0 * matches / (len(a) + len(b)), and 1.0 when both are empty.
ratio(a, b) ==
    IF Len(a) + Len(b) = 0 THEN <<1, 1>>
    ELSE <<2 * get_matching_blocks(a, b, 0, Len(a), 0, Len(b)), Len(a) + Len(b)>>

_similarity(a, b) ==
    IF a = None \/ a = <<>> \/ b = None \/ b = <<>> THEN <<0, 1>>
    ELSE ratio(Strip(Lower(a)), Strip(Lower(b)))

_normalize(s) == IF IsStr(s) THEN Strip(Lower(s)) ELSE <<>>

(***************************************************************************)
(* Exact rational arithmetic for the score and its rounding.               *)
(***************************************************************************)
\* (name_sim + type_sim) / 2
Score(n, t) == <<n[1] * t[2] + t[1] * n[2], 2 * n[2] * t[2]>>

RatGT(x, y) == x[1] * y[2] > y[1] * x[2]

\* score >= threshold, threshold in thousandths
AtLeast(x, thr) == x[1] * 1000 >= thr * x[2]

\* round(score, 2) in hundredths: round-half-to-even on the exact value
Round2(x) ==
    LET n == 100 * x[1]
        q == n \div x[2]
        r == n % x[2]
    IN  IF 2 * r < x[2] THEN q
        ELSE IF 2 * r > x[2] THEN q + 1
        ELSE IF q % 2 = 0 THEN q ELSE q + 1

(***************************************************************************)
(* Tables.  A table is [cols, rows]; every row is a function on cols.      *)
(***************************************************************************)
possible_keys == <<"job_date", "site", "service_type">>

KeyCols == {"job_date", "site", "service_type"}

\* Mutant of Empty: looks at the columns only.
Empty_ColumnsOnly(df) == df.cols = {}

Empty(df) == df.cols = {} \/ df.rows = <<>>

\* df["site"] = df["site"].apply(_normalize) on a copy of df
NormalizeSite(df) ==
    [cols |-> df.cols,
     rows |-> [k \in 1..Len(df.rows) |->
                  [df.rows[k] EXCEPT !["site"] = _normalize(@)]]]

KeyOf(row, keys) == [k \in 1..Len(keys) |-> row[keys[k]]]

\* {**c_row.to_dict(), **i_row.to_dict()}: the internal value wins
Combined(c, i) ==
    [k \in (DOMAIN c) \cup (DOMAIN i) |-> IF k \in DOMAIN i THEN i[k] ELSE c[k]]

Get(row, col, default) == IF col \in DOMAIN row THEN row[col] ELSE default

Indices(s) == [k \in 1..Len(s) |-> k]

RECURSIVE Concat(_)
Concat(ss) == IF ss = <<>> THEN <<>> ELSE Head(ss) \o Concat(Tail(ss))

(***************************************************************************)
(* Objects.  A table is held by an object and a name of the program is     *)
(* bound to an object; a statement df[column] = ... stores into the object *)
(* the name df is bound to, whoever else holds that object.  An object is  *)
(* named by the name of the caller that holds it followed by the calls     *)
(* that made it from that one.                                             *)
(***************************************************************************)
\* Mutant of copy: the object itself.
copy_same(object) == object

\* DataFrame.copy(): a new object
copy(object) == Append(object, "copy")

\* DataFrame.assign(...): a new object
assign(object) == Append(object, "assign")

\* The table that object holds, having held the table held, once the table
\* written has been stored through a name bound to target.
After(object, held, target, written) ==
    IF target = object THEN written ELSE held

(***************************************************************************)
(* deterministic_match: pd.merge(client, internal, on=join_keys,           *)
(* how="inner").  The merge pairs every client row with every internal row *)
(* whose key tuple is equal, missing values (NULL) being equal to each     *)
(* other, in the order of the client rows.  ci and ii record which rows    *)
(* of the inputs a pair was built from.                                    *)
(***************************************************************************)
DetPair(c, i, ci, ii) ==
    [ci |-> ci, ii |-> ii, row |-> Combined(c, i),
     confidence |-> 100, match_type |-> "deterministic"]

\* Mutant of deterministic_match: a one-to-one join that pairs a client row
\* with the first internal row of its key group only.
deterministic_match_first(cdf, idf, keys) ==
    Concat([ci \in 1..Len(cdf.rows) |->
        LET hits == SelectSeq(Indices(idf.rows),
                       LAMBDA ii : KeyOf(idf.rows[ii], keys) = KeyOf(cdf.rows[ci], keys))
        IN  IF hits = <<>> THEN <<>>
            ELSE <<DetPair(cdf.rows[ci], idf.rows[hits[1]], ci, hits[1])>>])

deterministic_match(cdf, idf, keys) ==
    Concat([ci \in 1..Len(cdf.rows) |->
        LET hits == SelectSeq(Indices(idf.rows),
                       LAMBDA ii : KeyOf(idf.rows[ii], keys) = KeyOf(cdf.rows[ci], keys))
        IN  [n \in 1..Len(hits) |->
                DetPair(cdf.rows[ci], idf.rows[hits[n]], ci, hits[n])]])

(***************************************************************************)
(* get_unmatched: the rows of df (as indices, in order) whose key tuple    *)
(* is the key tuple of no matched pair; all of them when nothing matched.  *)
(***************************************************************************)
\* Mutant of get_unmatched: every row is left over.
get_unmatched_all(df, matched, keys) == Indices(df.rows)

\* Mutant of get_unmatched: a row whose job_date is missing has no
\* counterpart, as in a join where a missing value equals nothing.
get_unmatched_nonnull(df, matched, keys) ==
    IF matched = <<>> THEN Indices(df.rows)
    ELSE SelectSeq(Indices(df.rows),
            LAMBDA k : \/ Get(df.rows[k], "job_date", "D1") = NULL
                       \/ \A n \in 1..Len(matched) :
                             KeyOf(matched[n].row, keys) # KeyOf(df.rows[k], keys))

get_unmatched(df, matched, keys) ==
    IF matched = <<>> THEN Indices(df.rows)
    ELSE SelectSeq(Indices(df.rows),
            LAMBDA k : \A n \in 1..Len(matched) :
                          KeyOf(matched[n].row, keys) # KeyOf(df.rows[k], keys))

(***************************************************************************)
(* fuzzy_match over the leftover rows uc of cdf and ui of idf.             *)
(***************************************************************************)
RowScore(c, i) ==
    Score(_similarity(c["site"], i["site"]),
          _similarity(Get(c, "service_type", <<>>), Get(i, "service_type", <<>>)))

\* grouped_internal.get_group(job_date): groupby drops the NULL dates
GetGroup(idf, ui, job_date) ==
    SelectSeq(ui, LAMBDA ii : idf.rows[ii]["job_date"] # NULL
                              /\ idf.rows[ii]["job_date"] = job_date)

\* the loop over the candidates: <<best_score, best_match>>, where
\* best_match = 0 stands for None
\* Mutant of BestOf: the candidate scanned last wins, whatever its score.
RECURSIVE BestOf_last(_, _, _, _)
BestOf_last(c, idf, cands, best) ==
    IF cands = <<>> THEN best
    ELSE BestOf_last(c, idf, Tail(cands),
                     <<RowScore(c, idf.rows[Head(cands)]), Head(cands)>>)

RECURSIVE BestOf(_, _, _, _)
BestOf(c, idf, cands, best) ==
    IF cands = <<>> THEN best
    ELSE LET score == RowScore(c, idf.rows[Head(cands)])
         IN  BestOf(c, idf, Tail(cands),
                    IF RatGT(score, best[1]) THEN <<score, Head(cands)>> ELSE best)

Selected(best, threshold) == best[2] # 0 /\ AtLeast(best[1], threshold)

FuzzyPair(c, i, ci, ii, score) ==
    [ci |-> ci, ii |-> ii, row |-> Combined(c, i),
     confidence |-> Round2(score), match_type |-> "fuzzy"]

fuzzy_match(cdf, uc, idf, ui, threshold) ==
    IF uc = <<>> \/ ui = <<>> THEN <<>>
    ELSE Concat([n \in 1..Len(uc) |->
        LET c == cdf.rows[uc[n]]
            job_date == Get(c, "job_date", NULL)
            cands == IF job_date = NULL THEN <<>> ELSE GetGroup(idf, ui, job_date)
            best == BestOf(c, idf, cands, <<<<0, 1>>, 0>>)
        IN  IF cands # <<>> /\ Selected(best, threshold)
            THEN <<FuzzyPair(c, idf.rows[best[2]], uc[n], best[2], best[1])>>
            ELSE <<>>])

\* internal_df.groupby("job_date") raises KeyError without the column
FuzzyKeyError(uc, idf, ui) ==
    uc # <<>> /\ ui # <<>> /\ "job_date" \notin idf.cols

(***************************************************************************)
(* Step 4 of reconcile: the rows whose identifier is not among the         *)
(* non-null identifiers of all_matches.                                    *)
(***************************************************************************)
MatchedIds(matches, idcol) ==
    {matches[n].row[idcol] : n \in 1..Len(matches)} \ {NULL}

\* Mutant of FinalUnmatched: no row is filtered out.
FinalUnmatched_all(df, matches, idcol) == Indices(df.rows)

FinalUnmatched(df, matches, idcol) ==
    SelectSeq(Indices(df.rows),
              LAMBDA k : df.rows[k][idcol] \notin MatchedIds(matches, idcol))

(***************************************************************************)
(* State: the caller's tables and threshold, reconcile's locals and its    *)
(* results, the raised exception, and the position in reconcile.           *)
(***************************************************************************)
VARIABLES pc, client_in, internal_in, threshold,
          client_df, internal_df, join_keys,
          det_matched, unmatched_client, unmatched_internal, fuzzy_matched,
          all_matches, client_unmatched, internal_unmatched, error

reconcile_vars ==
    <<pc, client_in, internal_in, threshold, client_df, internal_df,
      join_keys, det_matched, unmatched_client, unmatched_internal,
      fuzzy_matched, all_matches, client_unmatched, internal_unmatched,
      error>>

inputs == <<client_in, internal_in, threshold>>

(***************************************************************************)
(* State of the other components, each exercised by a specification of its *)
(* own: a call of one of the metrics functions (its arguments, its result  *)
(* and the result of classifying that result again), a call of             *)
(* _similarity, and a call of normalize_dataframe.  A result is a record:  *)
(* a table, a summary, or [error |-> e] when the call raised e.            *)
(***************************************************************************)
VARIABLES mpc, matched_df, tolerance, unmatched_lens, metrics_out,
          metrics_again,
          spc, sim_a, sim_b, sim_out,
          npc, norm_df, norm_out

metrics_vars == <<mpc, matched_df, tolerance, unmatched_lens, metrics_out,
                  metrics_again>>

similarity_vars == <<spc, sim_a, sim_b, sim_out>>

normalizer_vars == <<npc, norm_df, norm_out>>

(***************************************************************************)
(* State of one run of the application script (src/src/app.py): its        *)
(* position, the two sidebar choices, the tables its sources hold, the     *)
(* results of lines 130 and 138, each with the object that holds it, and   *)
(* the calls the script has made so far, in order.  The script's client_df *)
(* and ledger_df are client_in and internal_in, its matched_df (the result *)
(* of reconcile), tolerance and metrics are matched_df, tolerance and      *)
(* metrics_out.                                                            *)
(***************************************************************************)
VARIABLES apc, auto_load, uploaded, raw_client, raw_ledger,
          variance_df, anomalies_df, calls

app_vars == <<apc, auto_load, uploaded, raw_client, raw_ledger,
              variance_df, anomalies_df, calls>>

others == <<metrics_vars, similarity_vars, normalizer_vars, app_vars>>

vars == <<reconcile_vars, others>>

NoResult == [none |-> TRUE]

Failed(out) == "error" \in DOMAIN out

MetricsIdle ==
    /\ mpc = "off"
    /\ matched_df = [cols |-> <<>>, rows |-> <<>>]
    /\ tolerance = 0
    /\ unmatched_lens = <<0, 0>>
    /\ metrics_out = NoResult
    /\ metrics_again = NoResult

SimilarityIdle ==
    /\ spc = "off"
    /\ sim_a = <<>>
    /\ sim_b = <<>>
    /\ sim_out = <<0, 1>>

NormalizerIdle ==
    /\ npc = "off"
    /\ norm_df = [cols |-> <<>>, rows |-> <<>>]
    /\ norm_out = NoResult

AppIdle ==
    /\ apc = "off"
    /\ auto_load = TRUE
    /\ uploaded = FALSE
    /\ raw_client = [cols |-> <<>>, rows |-> <<>>]
    /\ raw_ledger = [cols |-> <<>>, rows |-> <<>>]
    /\ variance_df = NoResult
    /\ anomalies_df = NoResult
    /\ calls = <<>>

(***************************************************************************)
(* Inputs.  Three families of calls reconcile(client, internal, threshold) *)
(* are drawn, each with at most MaxRows rows in the two tables together:   *)
(* full-schema tables with distinct identifiers and varying dates, site    *)
(* spellings, service types and thresholds; full-schema tables whose       *)
(* identifiers and dates may be null or repeated; and tables over every    *)
(* schema.  A fourth family holds two tables of two rows each.             *)
(***************************************************************************)
Thresholds == {0, 800, 833}
DefaultThreshold == 800

Dates == {"D1", "D2"}
ClientSites == {<<"a">>, <<"B">>}
InternalSites == {<<"A", " ">>, <<"a", "b">>}
Types == {<<"x">>, <<"y">>}

IdValues == {NULL, "1"}
IdDates == {NULL, "D1"}
IdSites == {<<"a">>, <<"a", "b">>}

FullCols(idcol) == KeyCols \cup {idcol}

Row(idcol, id, d, s, t) ==
    (idcol :> id) @@ [job_date |-> d, site |-> s, service_type |-> t]

Restrict(r, cols) == [k \in cols |-> r[k]]

Table(cols, rows) == [cols |-> cols, rows |-> rows]

\* Tables of n rows with the full schema and distinct non-null identifiers.
MatchTables(idcol, sites, n) ==
    {Table(FullCols(idcol), [k \in 1..n |-> [q[k] EXCEPT ![idcol] = ToString(k)]]) :
        q \in [1..n -> {Row(idcol, NULL, d, s, t) :
                            d \in Dates, s \in sites, t \in Types}]}

\* Tables of n rows with the full schema, identifiers and dates possibly
\* null or repeated.
IdTables(idcol, n) ==
    {Table(FullCols(idcol), q) :
        q \in [1..n -> {Row(idcol, id, d, s, <<"x">>) :
                            id \in IdValues, d \in IdDates, s \in IdSites}]}

\* Tables of n rows over every schema that holds the identifier column.
SchemaTables(idcol, n) ==
    UNION {{Table(cols \cup {idcol}, q) :
               q \in [1..n -> {Restrict(Row(idcol, "1", "D1", s, <<"x">>),
                                        cols \cup {idcol}) : s \in IdSites}]} :
           cols \in SUBSET KeyCols}

\* Tables of two rows of one date and one service type: with two such
\* tables one run can hold an exact pair and a fuzzy pair.
PhaseTables(idcol, sites) ==
    {Table(FullCols(idcol),
           [k \in 1..2 |-> Row(idcol, ToString(k), "D1", q[k], <<"x">>)]) :
        q \in [1..2 -> sites]}

InitLocals ==
    /\ pc = "reconcile"
    /\ client_df = Table({}, <<>>)
    /\ internal_df = Table({}, <<>>)
    /\ join_keys = <<>>
    /\ det_matched = <<>>
    /\ unmatched_client = <<>>
    /\ unmatched_internal = <<>>
    /\ fuzzy_matched = <<>>
    /\ all_matches = <<>>
    /\ client_unmatched = <<>>
    /\ internal_unmatched = <<>>
    /\ error = "none"

InitMatch ==
    \E nc \in 0..MaxRows : \E ni \in 0..(MaxRows - nc) :
        /\ client_in \in MatchTables("order_id", ClientSites, nc)
        /\ internal_in \in MatchTables("job_id", InternalSites, ni)
        /\ threshold \in Thresholds

InitIds ==
    \E nc \in 0..MaxRows : \E ni \in 0..(MaxRows - nc) :
        /\ client_in \in IdTables("order_id", nc)
        /\ internal_in \in IdTables("job_id", ni)
        /\ threshold = DefaultThreshold

InitSchema ==
    \E nc \in 0..MaxSchemaRows : \E ni \in 0..MaxSchemaRows :
        /\ client_in \in SchemaTables("order_id", nc)
        /\ internal_in \in SchemaTables("job_id", ni)
        /\ threshold = DefaultThreshold

InitPhases ==
    /\ client_in \in PhaseTables("order_id", ClientSites)
    /\ internal_in \in PhaseTables("job_id", InternalSites)
    /\ threshold = DefaultThreshold

Init ==
    /\ InitLocals
    /\ InitMatch \/ InitIds \/ InitSchema \/ InitPhases
    /\ MetricsIdle
    /\ SimilarityIdle
    /\ NormalizerIdle
    /\ AppIdle

(***************************************************************************)
(* reconcile, lines 127-140: the emptiness check, the normalised copies    *)
(* and the join keys.  The caller's tables are the objects bound to the    *)
(* parameters client_df and internal_df at the call; lines 134-135 store   *)
(* into the objects those names are bound to after lines 132-133.          *)
(***************************************************************************)
Raise(e) ==
    /\ pc' = "raised"
    /\ error' = e

ReconcileEntry ==
    /\ pc = "reconcile"
    /\ IF Empty(client_in) \/ Empty(internal_in)
       THEN /\ Raise("ValueError: empty input")
            /\ UNCHANGED <<client_in, internal_in, client_df, internal_df, join_keys>>
       ELSE IF "site" \notin client_in.cols \/ "site" \notin internal_in.cols
       THEN /\ Raise("KeyError: site")
            /\ UNCHANGED <<client_in, internal_in, client_df, internal_df, join_keys>>
       ELSE LET c == NormalizeSite(client_in)
                i == NormalizeSite(internal_in)
                keys == SelectSeq(possible_keys,
                                  LAMBDA k : k \in c.cols /\ k \in i.cols)
            IN  /\ client_df' = c
                /\ internal_df' = i
                /\ client_in' = After(<<"client_df">>, client_in,
                                      copy(<<"client_df">>), c)
                /\ internal_in' = After(<<"internal_df">>, internal_in,
                                        copy(<<"internal_df">>), i)
                /\ join_keys' = keys
                /\ IF keys = <<>>
                   THEN Raise("ValueError: no overlapping columns")
                   ELSE pc' = "deterministic" /\ UNCHANGED error
    /\ UNCHANGED <<threshold, others, det_matched, unmatched_client,
                   unmatched_internal, fuzzy_matched, all_matches,
                   client_unmatched, internal_unmatched>>

\* line 143
DeterministicMatch ==
    /\ pc = "deterministic"
    /\ IF join_keys = <<>>
       THEN Raise("ValueError: no merge keys") /\ UNCHANGED det_matched
       ELSE /\ det_matched' = deterministic_match(client_df, internal_df, join_keys)
            /\ pc' = "leftovers"
            /\ UNCHANGED error
    /\ UNCHANGED <<inputs, others, client_df, internal_df, join_keys, unmatched_client,
                   unmatched_internal, fuzzy_matched, all_matches,
                   client_unmatched, internal_unmatched>>

\* lines 146-147
GetUnmatched ==
    /\ pc = "leftovers"
    /\ unmatched_client' = get_unmatched(client_df, det_matched, join_keys)
    /\ unmatched_internal' = get_unmatched(internal_df, det_matched, join_keys)
    /\ pc' = "fuzzy"
    /\ UNCHANGED <<inputs, others, client_df, internal_df, join_keys, det_matched,
                   fuzzy_matched, all_matches, client_unmatched,
                   internal_unmatched, error>>

\* line 148
FuzzyMatch ==
    /\ pc = "fuzzy"
    /\ IF FuzzyKeyError(unmatched_client, internal_df, unmatched_internal)
       THEN Raise("KeyError: job_date") /\ UNCHANGED fuzzy_matched
       ELSE /\ fuzzy_matched' = fuzzy_match(client_df, unmatched_client,
                                            internal_df, unmatched_internal,
                                            threshold)
            /\ pc' = "combine"
            /\ UNCHANGED error
    /\ UNCHANGED <<inputs, others, client_df, internal_df, join_keys, det_matched,
                   unmatched_client, unmatched_internal, all_matches,
                   client_unmatched, internal_unmatched>>

\* lines 151-162
Combine ==
    /\ pc = "combine"
    /\ LET matches == det_matched \o fuzzy_matched
       IN  /\ all_matches' = matches
           /\ client_unmatched' = FinalUnmatched(client_df, matches, "order_id")
           /\ internal_unmatched' = FinalUnmatched(internal_df, matches, "job_id")
    /\ pc' = "returned"
    /\ UNCHANGED <<inputs, others, client_df, internal_df, join_keys, det_matched,
                   unmatched_client, unmatched_internal, fuzzy_matched, error>>

Next ==
    \/ ReconcileEntry
    \/ DeterministicMatch
    \/ GetUnmatched
    \/ FuzzyMatch
    \/ Combine

Spec == Init /\ [][Next]_vars

(***************************************************************************)
(* Vocabulary of the properties.                                           *)
(***************************************************************************)
Returned == pc = "returned"

Entered == pc # "reconcile"

ClientRows == 1..Len(client_in.rows)

InternalRows == 1..Len(internal_in.rows)

PairsOfClient(matches, k) == {n \in 1..Len(matches) : matches[n].ci = k}

PairsOfInternal(matches, k) == {n \in 1..Len(matches) : matches[n].ii = k}

InSeq(k, seq) == \E n \in 1..Len(seq) : seq[n] = k

SameKey(c, i) ==
    KeyOf(client_df.rows[c], join_keys) = KeyOf(internal_df.rows[i], join_keys)

ExpectedKeys ==
    SelectSeq(possible_keys,
              LAMBDA k : k \in client_in.cols /\ k \in internal_in.cols)

\* C1: after reconcile every client row is in exactly one of {a pair of
\* all_matches, client_unmatched} and every internal row in exactly one of
\* {a pair of all_matches, internal_unmatched}, null and repeated
\* identifiers included.
C1_Partition ==
    Returned =>
        /\ \A k \in ClientRows :
              (PairsOfClient(all_matches, k) # {}) # InSeq(k, client_unmatched)
        /\ \A k \in InternalRows :
              (PairsOfInternal(all_matches, k) # {}) # InSeq(k, internal_unmatched)

\* C2 as stated: every client row and every internal row is in at most one
\* pair of all_matches.
C2_AtMostOne ==
    Returned =>
        /\ \A k \in ClientRows : Cardinality(PairsOfClient(all_matches, k)) <= 1
        /\ \A k \in InternalRows : Cardinality(PairsOfInternal(all_matches, k)) <= 1

\* C2 as amended: every (client row, internal row) combination is in at
\* most one pair of all_matches; a client row is in several pairs only when
\* they are the deterministic pairs with the internal rows that have its
\* key tuple; an internal row is in several pairs only when they are the
\* deterministic pairs with the client rows that have its key tuple, or
\* fuzzy pairs of different client rows.
C2_AtMostOnePerCombination ==
    Returned =>
        /\ \A n, m \in 1..Len(all_matches) :
              (all_matches[n].ci = all_matches[m].ci
                 /\ all_matches[n].ii = all_matches[m].ii) => n = m
        /\ \A k \in ClientRows :
              LET ps == PairsOfClient(all_matches, k)
              IN  Cardinality(ps) > 1 =>
                    /\ \A n \in ps : all_matches[n].match_type = "deterministic"
                    /\ Cardinality(ps) =
                          Cardinality({i \in InternalRows : SameKey(k, i)})
        /\ \A k \in InternalRows :
              LET ps == PairsOfInternal(all_matches, k)
              IN  Cardinality(ps) > 1 =>
                    \/ /\ \A n \in ps : all_matches[n].match_type = "deterministic"
                       /\ Cardinality(ps) =
                             Cardinality({c \in ClientRows : SameKey(c, k)})
                    \/ \A n \in ps : all_matches[n].match_type = "fuzzy"

\* C2 witness: one internal row is the fuzzy partner of two client rows.
C2_Witness ==
    /\ Returned
    /\ \E k \in InternalRows :
          /\ Cardinality(PairsOfInternal(all_matches, k)) = 2
          /\ \A n \in PairsOfInternal(all_matches, k) :
                all_matches[n].match_type = "fuzzy"

\* C3 as stated: the rows of all_matches plus the rows of the returned
\* unmatched-client table are at most the client input rows.
C3_MatchesPlusUnmatched ==
    Returned =>
        Len(all_matches) + Len(client_unmatched) <= Len(client_in.rows)

NullIdMatches == {n \in 1..Len(all_matches) : all_matches[n].row["order_id"] = NULL}

OnePartnerAtMost ==
    \A k \in ClientRows : Cardinality({i \in InternalRows : SameKey(k, i)}) <= 1

\* C3 as amended: when no client row has its key tuple in more than one
\* internal row, the rows of all_matches plus the rows of the returned
\* unmatched-client table are at most the client input rows plus the rows
\* of all_matches whose order_id is null.
C3_MatchesPlusUnmatchedBounded ==
    (Returned /\ OnePartnerAtMost) =>
        Len(all_matches) + Len(client_unmatched)
            <= Len(client_in.rows) + Cardinality(NullIdMatches)

\* C3 witness: a run with matched and unmatched client rows, none of them
\* with several partners, where the bound is met with equality.
C3_Witness ==
    /\ Returned
    /\ OnePartnerAtMost
    /\ all_matches # <<>>
    /\ client_unmatched # <<>>
    /\ Len(all_matches) + Len(client_unmatched)
          = Len(client_in.rows) + Cardinality(NullIdMatches)

\* C4: when a table has zero rows reconcile raises the empty-input
\* ValueError, whatever else is wrong with the inputs, and produces no
\* match and no unmatched table.
C4_EmptyInputFirst ==
    (Entered /\ (client_in.rows = <<>> \/ internal_in.rows = <<>>)) =>
        /\ pc = "raised"
        /\ error = "ValueError: empty input"
        /\ all_matches = <<>>
        /\ det_matched = <<>>
        /\ fuzzy_matched = <<>>
        /\ client_unmatched = <<>>
        /\ internal_unmatched = <<>>

\* C4 witness: the empty-input error is raised for an empty client table
\* although the internal table also lacks the site column.
C4_Witness ==
    /\ pc = "raised"
    /\ error = "ValueError: empty input"
    /\ client_in.rows = <<>>
    /\ internal_in.rows # <<>>
    /\ "site" \notin internal_in.cols

\* C5: on non-empty tables whose schemas share no column reconcile raises
\* the no-overlapping-columns ValueError of the join-key check.
C5_NoCommonColumns ==
    (Entered /\ ~Empty(client_in) /\ ~Empty(internal_in)
       /\ client_in.cols \cap internal_in.cols = {}) =>
        /\ pc = "raised"
        /\ error = "ValueError: no overlapping columns"

\* C6: on non-empty tables join_keys is the sub-list of possible_keys of
\* the columns in both schemas, and when it is non-empty reconcile raises
\* nothing.
C6_JoinKeys ==
    (Entered /\ ~Empty(client_in) /\ ~Empty(internal_in) /\ ExpectedKeys # <<>>) =>
        /\ pc # "raised"
        /\ join_keys = ExpectedKeys

DetDone == pc \in {"leftovers", "fuzzy", "combine", "returned"}

FuzzyDone == pc \in {"combine", "returned"}

\* C7: deterministic_match returns one pair for every (client row,
\* internal row) combination whose join-key tuples are equal and none for
\* any other, so a key group of c client rows and i internal rows yields
\* c*i pairs, each with confidence 1.0 and match_type deterministic.
C7_ExactMatcher ==
    DetDone =>
        /\ \A c \in ClientRows : \A i \in InternalRows :
              Cardinality({n \in 1..Len(det_matched) :
                              det_matched[n].ci = c /\ det_matched[n].ii = i})
                = IF SameKey(c, i) THEN 1 ELSE 0
        /\ \A n \in 1..Len(det_matched) :
              /\ det_matched[n].ci \in ClientRows
              /\ det_matched[n].ii \in InternalRows
              /\ det_matched[n].confidence = 100
              /\ det_matched[n].match_type = "deterministic"

\* C7 witness: a key group of two client rows and one internal row gives
\* two pairs.
C7_Witness ==
    /\ DetDone
    /\ Len(det_matched) = 2
    /\ det_matched[1].ii = det_matched[2].ii
    /\ det_matched[1].ci # det_matched[2].ci
    /\ Len(internal_in.rows) = 1

\* The internal rows fuzzy_match compares the leftover client row c with:
\* the leftover internal rows with c's (non-null) job_date.
Candidates(c) ==
    {i \in InternalRows :
        /\ InSeq(i, unmatched_internal)
        /\ Get(client_df.rows[c], "job_date", NULL) # NULL
        /\ Get(internal_df.rows[i], "job_date", NULL)
             = Get(client_df.rows[c], "job_date", NULL)}

ScoreOf(c, i) == RowScore(client_df.rows[c], internal_df.rows[i])

IsMaxScore(c, i) ==
    /\ i \in Candidates(c)
    /\ \A j \in Candidates(c) : ~RatGT(ScoreOf(c, j), ScoreOf(c, i))

FuzzyChecked == FuzzyDone /\ unmatched_client # <<>> /\ unmatched_internal # <<>>

\* C8 as stated: a leftover client row is in a fuzzy pair if and only if it
\* has a candidate and its maximum score S is at least the threshold, and
\* then exactly once, with a candidate of score S.
C8_FuzzySelection ==
    FuzzyDone =>
        \A c \in ClientRows : InSeq(c, unmatched_client) =>
            LET ps == PairsOfClient(fuzzy_matched, c)
            IN  /\ (ps # {}) <=>
                      \E i \in Candidates(c) :
                          IsMaxScore(c, i) /\ AtLeast(ScoreOf(c, i), threshold)
                /\ Cardinality(ps) <= 1
                /\ \A n \in ps : IsMaxScore(c, fuzzy_matched[n].ii)

\* C8 as amended: a leftover client row is in a fuzzy pair if and only if
\* it has a candidate, its maximum score S is at least the threshold and S
\* is greater than 0; and then exactly once, with a candidate of score S.
C8_FuzzySelectionPositive ==
    FuzzyDone =>
        \A c \in ClientRows : InSeq(c, unmatched_client) =>
            LET ps == PairsOfClient(fuzzy_matched, c)
            IN  /\ (ps # {}) <=>
                      \E i \in Candidates(c) :
                          /\ IsMaxScore(c, i)
                          /\ AtLeast(ScoreOf(c, i), threshold)
                          /\ RatGT(ScoreOf(c, i), <<0, 1>>)
                /\ Cardinality(ps) <= 1
                /\ \A n \in ps : IsMaxScore(c, fuzzy_matched[n].ii)

\* C8 witness: at threshold 0 one leftover client row is paired with its
\* best candidate while another, whose best candidate scores 0, is not.
C8_Witness ==
    /\ FuzzyChecked
    /\ threshold = 0
    /\ \E c \in ClientRows :
          /\ InSeq(c, unmatched_client)
          /\ PairsOfClient(fuzzy_matched, c) # {}
    /\ \E c \in ClientRows :
          /\ InSeq(c, unmatched_client)
          /\ Candidates(c) # {}
          /\ PairsOfClient(fuzzy_matched, c) = {}

\* C9: every fuzzy row of all_matches has confidence >= threshold.
C9_FuzzyConfidence ==
    Returned =>
        \A n \in 1..Len(all_matches) :
            all_matches[n].match_type = "fuzzy" =>
                all_matches[n].confidence * 10 >= threshold

NullDate(row) == "job_date" \in DOMAIN row /\ row["job_date"] = NULL

\* C10: a row whose job_date is null is in no pair of all_matches and is
\* in its side's final unmatched table.
C10_NullDateUnmatched ==
    Returned =>
        /\ \A k \in ClientRows : NullDate(client_in.rows[k]) =>
              /\ PairsOfClient(all_matches, k) = {}
              /\ InSeq(k, client_unmatched)
        /\ \A k \in InternalRows : NullDate(internal_in.rows[k]) =>
              /\ PairsOfInternal(all_matches, k) = {}
              /\ InSeq(k, internal_unmatched)

(***************************************************************************)
(* METRICS (src/src/analysis/metrics.py).                                  *)
(*                                                                         *)
(* A frame is [cols, rows] with cols the sequence of its column names in   *)
(* order and every row a function on those names.  Monetary values are     *)
(* integers in tenths of a unit, tolerances are in tenths of a percent,    *)
(* and a percentage is <<"num", n, d>> for the exact rational n / d with   *)
(* d > 0, <<"nan", 0, 1>> for NaN or <<"inf", 1, 0>> for +infinity.        *)
(***************************************************************************)
Frame(cols, rows) == [cols |-> cols, rows |-> rows]

\* DataFrame.empty: one of the two axes has length 0
FrameEmpty(df) == df.cols = <<>> \/ df.rows = <<>>

HasColumn(df, c) == \E k \in 1..Len(df.cols) : df.cols[k] = c

\* The pieces of a column name on which the substring and suffix tests of
\* _resolve_revenue_columns depend.
Parts(c) ==
    CASE c = "amount_client" -> <<"amount", "_client">>
      [] c = "discount_amount" -> <<"discount_", "amount">>
      [] c = "revenue_client" -> <<"revenue", "_client">>
      [] c = "revenue_internal" -> <<"revenue", "_internal">>
      [] c = "revenue_delta" -> <<"revenue", "_delta">>
      [] c = "order_id_client" -> <<"order_id", "_client">>
      [] c = "job_id_internal" -> <<"job_id", "_internal">>
      [] OTHER -> <<c>>

\* w in c
Contains(c, w) == \E k \in 1..Len(Parts(c)) : Parts(c)[k] = w

\* c.endswith(w)
EndsWith(c, w) == Parts(c)[Len(Parts(c))] = w

\* line 23
IsClientColumn(c) ==
    Contains(c, "amount") \/ (EndsWith(c, "_client") /\ Contains(c, "revenue"))

\* Mutant of IsInternalColumn: every column that holds "revenue".
IsInternalColumn_anyRevenue(c) == Contains(c, "revenue")

\* line 25
IsInternalColumn(c) == Contains(c, "revenue") /\ EndsWith(c, "_internal")

\* The value the loop over the columns leaves in a variable that it
\* assigns at every column of the set matching: the last such column, NULL
\* if none.
LastColumn(cols, matching) ==
    LET S == {k \in 1..Len(cols) : cols[k] \in matching}
    IN  IF S = {} THEN NULL
        ELSE cols[CHOOSE k \in S : \A j \in S : j <= k]

ColumnSet(df) == {df.cols[k] : k \in 1..Len(df.cols)}

\* lines 21-38; [error |-> ...] stands for the KeyError of line 35
_resolve_revenue_columns(df) ==
    LET c0 == LastColumn(df.cols, {c \in ColumnSet(df) : IsClientColumn(c)})
        i0 == LastColumn(df.cols, {c \in ColumnSet(df) : IsInternalColumn(c)})
        client_col == IF c0 = NULL /\ HasColumn(df, "amount") THEN "amount" ELSE c0
        internal_col ==
            IF i0 = NULL /\ HasColumn(df, "revenue") THEN "revenue" ELSE i0
    IN  IF client_col = NULL \/ internal_col = NULL
        THEN [error |-> "KeyError: Cannot detect revenue columns"]
        ELSE [client_col |-> client_col, internal_col |-> internal_col]

\* np.floor of a value in tenths
Floor(v) == v \div 10

Abs(x) == IF x < 0 THEN -x ELSE x

NaN == <<"nan", 0, 1>>

Infinity == <<"inf", 1, 0>>

\* Mutant of PctVariance: a zero average gives 0.
PctVariance_zero(delta, sum) ==
    IF sum = 0 THEN <<"num", 0, 1>>
    ELSE IF sum > 0 THEN <<"num", 200 * delta, sum>>
    ELSE <<"num", -(200 * delta), -sum>>

\* (delta / (sum / 2)) * 100 in IEEE arithmetic, delta >= 0: 0/0 is NaN and
\* x/0 is +infinity
PctVariance(delta, sum) ==
    IF sum = 0 THEN (IF delta = 0 THEN NaN ELSE Infinity)
    ELSE IF sum > 0 THEN <<"num", 200 * delta, sum>>
    ELSE <<"num", -(200 * delta), -sum>>

\* Mutant of WithinTolerance: the comparison is strict.
WithinTolerance_strict(pct, tol) ==
    pct[1] = "num" /\ 10 * pct[2] < tol * pct[3]

\* pct_variance <= tolerance (line 52); a comparison with NaN is False
WithinTolerance(pct, tol) ==
    pct[1] = "num" /\ 10 * pct[2] <= tol * pct[3]

\* Mutant of OverTolerance: the negation of WithinTolerance.
OverTolerance_notWithin(pct, tol) ==
    ~(pct[1] = "num" /\ 10 * pct[2] <= tol * pct[3])

\* pct_variance > tolerance (line 122)
OverTolerance(pct, tol) ==
    pct[1] = "inf" \/ (pct[1] = "num" /\ 10 * pct[2] > tol * pct[3])

\* DataFrame.assign / df[name] = ...: the column is replaced where it is,
\* or appended; values holds the cell of every row
Assign(df, name, values) ==
    Frame(IF HasColumn(df, name) THEN df.cols ELSE Append(df.cols, name),
          [k \in 1..Len(df.rows) |-> (name :> values[k]) @@ df.rows[k]])

\* lines 43-64
calculate_revenue_variance(df, tol) ==
    IF FrameEmpty(df) THEN df
    ELSE LET r == _resolve_revenue_columns(df)
             n == Len(df.rows)
         IN  IF Failed(r) THEN r
             ELSE LET fc == [k \in 1..n |-> Floor(df.rows[k][r.client_col])]
                      fi == [k \in 1..n |-> Floor(df.rows[k][r.internal_col])]
                      revenue_delta == [k \in 1..n |-> Abs(fc[k] - fi[k])]
                      pct_variance ==
                          [k \in 1..n |-> PctVariance(revenue_delta[k], fc[k] + fi[k])]
                      within_tolerance ==
                          [k \in 1..n |-> WithinTolerance(pct_variance[k], tol)]
                  IN  Assign(Assign(Assign(df, "revenue_delta", revenue_delta),
                                    "pct_variance", pct_variance),
                             "within_tolerance", within_tolerance)

(***************************************************************************)
(* summarize_metrics.  The lengths of the two unmatched tables are all     *)
(* that the function reads of them.  Rates and percentages of the summary  *)
(* are in hundredths (round(x, 2)); the average variance is a percentage   *)
(* <<"num", hundredths, 100>>, NaN or +infinity.                           *)
(***************************************************************************)
\* Mutant of Max: the first argument.
Max_first(x, y) == x

Max(x, y) == IF x >= y THEN x ELSE y

RECURSIVE GCD(_, _)
GCD(x, y) == IF y = 0 THEN x ELSE GCD(y, x % y)

\* the fraction x in lowest terms, its denominator positive
Reduce(x) ==
    LET g == GCD(IF x[1] < 0 THEN -x[1] ELSE x[1], x[2])
    IN  <<x[1] \div g, x[2] \div g>>

RatAdd(x, y) ==
    LET a == Reduce(x)
        b == Reduce(y)
    IN  Reduce(<<a[1] * b[2] + b[1] * a[2], a[2] * b[2]>>)

RECURSIVE Sum(_)
Sum(s) == IF s = <<>> THEN 0 ELSE Head(s) + Sum(Tail(s))

RECURSIVE RatSum(_)
RatSum(s) == IF s = <<>> THEN <<0, 1>> ELSE RatAdd(Head(s), RatSum(Tail(s)))

\* round(Series.mean(), 2): the mean skips NaN, is NaN when nothing is
\* left and +infinity when a value is
MeanPct(rows) ==
    LET pct == [k \in 1..Len(rows) |-> rows[k]["pct_variance"]]
        nums == SelectSeq(pct, LAMBDA x : x[1] = "num")
        total == RatSum([k \in 1..Len(nums) |-> <<nums[k][2], nums[k][3]>>])
    IN  IF \E k \in 1..Len(pct) : pct[k][1] = "inf" THEN Infinity
        ELSE IF nums = <<>> THEN NaN
        ELSE <<"num", Round2(<<total[1], total[2] * Len(nums)>>), 100>>

\* Mutant of DegenerateTotal: the formula of the general case.
DegenerateTotal_max(uc, ui) == Max(0 + uc, 0 + ui)

\* line 73
DegenerateTotal(uc, ui) == uc + ui

\* lines 71-107
summarize_metrics(df, uc, ui, tol) ==
    IF FrameEmpty(df)
    THEN [total_jobs |-> DegenerateTotal(uc, ui),
          matched_jobs |-> 0,
          match_rate |-> 0,
          avg_variance_pct |-> <<"num", 0, 100>>,
          within_tolerance_pct |-> 0,
          unmatched_client_jobs |-> uc,
          unmatched_internal_jobs |-> ui,
          total_variance_amount |-> 0]
    ELSE LET n == Len(df.rows)
             total_jobs == Max(n + uc, n + ui)
             v == calculate_revenue_variance(df, tol)
             within == [k \in 1..n |-> IF v.rows[k]["within_tolerance"] THEN 1 ELSE 0]
             delta == [k \in 1..n |-> v.rows[k]["revenue_delta"]]
         IN  IF Failed(v) THEN v
             ELSE [total_jobs |-> total_jobs,
                   matched_jobs |-> n,
                   match_rate |-> Round2(<<100 * n, total_jobs>>),
                   avg_variance_pct |-> MeanPct(v.rows),
                   within_tolerance_pct |-> Round2(<<100 * Sum(within), n>>),
                   unmatched_client_jobs |-> uc,
                   unmatched_internal_jobs |-> ui,
                   total_variance_amount |-> Sum(delta)]

(***************************************************************************)
(* detect_anomalies.  The label and the reason of a row are written by     *)
(* four masked assignments in the order of the code.  A reason is          *)
(* <<text, percentage, delta>>; the percentage and the delta are those     *)
(* formatted into the rate_change text, NaN and 0 in the fixed texts.      *)
(***************************************************************************)
Reason(text) == <<text, NaN, 0>>

\* f"{pct_variance:.2f}"
Format2(pct) ==
    IF pct[1] = "num" THEN <<"num", Round2(<<pct[2], pct[3]>>), 100>> ELSE pct

\* df.loc[mask, column] = values, on the sequence of the column's cells
SetWhere(cells, mask, values) ==
    [k \in 1..Len(cells) |-> IF mask[k] THEN values[k] ELSE cells[k]]

\* Series.isna() of df.get(column, a Series of False)
IsNaColumn(df, column, k) == HasColumn(df, column) /\ df.rows[k][column] = NULL

\* Mutant of Duplicated: keep="first", the first row of a group is not
\* marked.
Duplicated_first(df, k) ==
    \E j \in 1..(k - 1) :
        /\ df.rows[j]["job_date"] = df.rows[k]["job_date"]
        /\ df.rows[j]["site"] = df.rows[k]["site"]

\* df.duplicated(subset=["job_date", "site"], keep=False)
Duplicated(df, k) ==
    \E j \in 1..Len(df.rows) :
        /\ j # k
        /\ df.rows[j]["job_date"] = df.rows[k]["job_date"]
        /\ df.rows[j]["site"] = df.rows[k]["site"]

\* The anomaly and anomaly_reason cells of the rows of df, the result of
\* calculate_revenue_variance: lines 118-139
Labels(df, tol) ==
    LET n == Len(df.rows)
        Const(x) == [k \in 1..n |-> x]
        rate_change_mask ==
            [k \in 1..n |-> OverTolerance(df.rows[k]["pct_variance"], tol)]
        duplicate_mask == [k \in 1..n |-> Duplicated(df, k)]
        missing_client_mask == [k \in 1..n |-> IsNaColumn(df, "order_id_client", k)]
        missing_internal_mask == [k \in 1..n |-> IsNaColumn(df, "job_id_internal", k)]
        rate_reason ==
            [k \in 1..n |-> <<"Client vs Internal revenue differs by",
                              Format2(df.rows[k]["pct_variance"]),
                              df.rows[k]["revenue_delta"]>>]
        a1 == SetWhere(Const(NULL), rate_change_mask, Const("rate_change"))
        r1 == SetWhere(Const(Reason(NULL)), rate_change_mask, rate_reason)
        a2 == SetWhere(a1, duplicate_mask, Const("duplicate"))
        r2 == SetWhere(r1, duplicate_mask,
                       Const(Reason("Multiple entries for same site/date")))
        a3 == SetWhere(a2, missing_client_mask, Const("missing_job"))
        r3 == SetWhere(r2, missing_client_mask,
                       Const(Reason("Job missing from client data")))
        a4 == SetWhere(a3, missing_internal_mask, Const("new_job"))
        r4 == SetWhere(r3, missing_internal_mask,
                       Const(Reason("Job present in internal ledger but missing from client data")))
    IN  [anomaly |-> a4, anomaly_reason |-> r4]

\* lines 113-147; [error |-> ...] stands for the KeyError of
\* df.duplicated on a table without job_date or site
detect_anomalies(matched, tol) ==
    IF FrameEmpty(matched) THEN matched
    ELSE LET df == calculate_revenue_variance(matched, tol)
         IN  IF Failed(df) THEN df
             ELSE IF ~HasColumn(df, "job_date") \/ ~HasColumn(df, "site")
             THEN [error |-> "KeyError: job_date, site"]
             ELSE LET l == Labels(df, tol)
                  IN  Assign(Assign(df, "anomaly", l.anomaly),
                             "anomaly_reason", l.anomaly_reason)

(***************************************************************************)
(* Calls of the metrics functions.  Three families of matched tables are   *)
(* drawn, each of at most MaxMatched rows: tables with the columns of the  *)
(* tests' fixture whose monetary values and tolerance vary; tables with    *)
(* those columns or with the columns reconcile produces, whose identifiers *)
(* may be null and whose (job_date, site) may repeat; and one-row tables   *)
(* over several sets of monetary columns.  Each call of summarize_metrics  *)
(* draws the lengths of its unmatched tables, at most MaxUnmatched.        *)
(***************************************************************************)
MaxMatched == 2
MaxUnmatched == 2

DefaultTolerance == 10
Tolerances == {DefaultTolerance, 50}

\* amount_client, revenue_internal, order_id_client and job_id_internal
FixtureCols ==
    <<"order_id_client", "job_id_internal", "job_date", "site", "service_type",
      "amount_client", "revenue_internal">>

\* the columns of a pair built by reconcile from tables with amount and
\* revenue columns
ReconcileCols ==
    <<"order_id", "job_date", "site", "service_type", "amount", "job_id",
      "revenue", "confidence", "match_type">>

\* <<client value, internal value>> in tenths: equal; 201.5 and 199.9, whose
\* floors are 1 % apart; 100.0 and 105.0; two values below 1; two values of
\* opposite sign
Money == {<<1000, 1000>>, <<2015, 1999>>, <<1000, 1050>>, <<5, 2>>, <<-50, 50>>}

AnomalyMoney == {<<1000, 1000>>, <<1000, 1050>>}

MetricKeys == {<<"D1", <<"a">>>>, <<"D1", <<"b">>>>}

MoneySchemas ==
    {<<"amount", "revenue">>,
     <<"amount_client", "revenue_internal">>,
     <<"revenue_client", "revenue_internal">>,
     <<"amount">>,
     <<"revenue">>,
     <<>>,
     <<"amount", "discount_amount", "revenue">>,
     <<"discount_amount", "amount", "revenue">>,
     <<"amount", "revenue", "revenue_internal">>}

\* The cell of a column in a row with the given identifiers, key and
\* monetary values; a discount is 7.0
Cell(c, idc, idi, key, money) ==
    CASE c \in {"order_id_client", "order_id"} -> idc
      [] c \in {"job_id_internal", "job_id"} -> idi
      [] c = "job_date" -> key[1]
      [] c = "site" -> key[2]
      [] c = "service_type" -> <<"x">>
      [] c \in {"amount", "amount_client", "revenue_client"} -> money[1]
      [] c \in {"revenue", "revenue_internal"} -> money[2]
      [] c = "discount_amount" -> 70
      [] c = "confidence" -> 100
      [] c = "match_type" -> "deterministic"

MetricRow(cols, idc, idi, key, money) ==
    [c \in {cols[k] : k \in 1..Len(cols)} |-> Cell(c, idc, idi, key, money)]

VarianceFrames(n) ==
    {Frame(FixtureCols, q) :
        q \in [1..n -> {MetricRow(FixtureCols, "1", "1", key, money) :
                            key \in MetricKeys, money \in Money}]}

AnomalyFrames(cols, ids, n) ==
    {Frame(cols, q) :
        q \in [1..n -> {MetricRow(cols, id[1], id[2], key, money) :
                            id \in ids, key \in MetricKeys,
                            money \in AnomalyMoney}]}

ColumnFrames ==
    {LET cols == <<"job_date", "site">> \o m
     IN  Frame(cols, <<MetricRow(cols, "1", "1", <<"D1", <<"a">>>>, <<1000, 1050>>)>>) :
        m \in MoneySchemas}

ReconcileIdle ==
    /\ InitLocals
    /\ client_in = Table({}, <<>>)
    /\ internal_in = Table({}, <<>>)
    /\ threshold = DefaultThreshold

MetricsLocals ==
    /\ mpc = "call"
    /\ unmatched_lens = <<0, 0>>
    /\ metrics_out = NoResult
    /\ metrics_again = NoResult

InitVariance ==
    \E n \in 0..MaxMatched :
        /\ matched_df \in VarianceFrames(n)
        /\ tolerance \in Tolerances

InitAnomaly ==
    \E n \in 0..MaxMatched :
        /\ matched_df \in AnomalyFrames(FixtureCols, IdValues \X IdValues, n)
                            \cup AnomalyFrames(ReconcileCols, {<<"1", "1">>, <<NULL, NULL>>}, n)
        /\ tolerance = DefaultTolerance

InitColumns ==
    /\ matched_df \in ColumnFrames
    /\ tolerance = DefaultTolerance

InitMetrics ==
    /\ MetricsLocals
    /\ InitVariance \/ InitAnomaly \/ InitColumns
    /\ ReconcileIdle
    /\ SimilarityIdle
    /\ NormalizerIdle
    /\ AppIdle

\* calculate_revenue_variance(matched_df, tolerance)
CalculateRevenueVariance ==
    /\ mpc = "call"
    /\ metrics_out' = calculate_revenue_variance(matched_df, tolerance)
    /\ mpc' = "variance"
    /\ UNCHANGED <<matched_df, tolerance, unmatched_lens, metrics_again>>

\* summarize_metrics(matched_df, unmatched_client, unmatched_internal,
\* tolerance)
SummarizeMetrics ==
    /\ mpc = "call"
    /\ \E uc \in 0..MaxUnmatched : \E ui \in 0..MaxUnmatched :
           /\ unmatched_lens' = <<uc, ui>>
           /\ metrics_out' = summarize_metrics(matched_df, uc, ui, tolerance)
    /\ mpc' = "summary"
    /\ UNCHANGED <<matched_df, tolerance, metrics_again>>

\* detect_anomalies(matched_df, tolerance)
DetectAnomalies ==
    /\ mpc = "call"
    /\ metrics_out' = detect_anomalies(matched_df, tolerance)
    /\ mpc' = "anomalies"
    /\ UNCHANGED <<matched_df, tolerance, unmatched_lens, metrics_again>>

\* detect_anomalies(detect_anomalies(matched_df, tolerance), tolerance)
DetectAnomaliesAgain ==
    /\ mpc = "anomalies"
    /\ ~Failed(metrics_out)
    /\ metrics_again' = detect_anomalies(metrics_out, tolerance)
    /\ mpc' = "anomalies again"
    /\ UNCHANGED <<matched_df, tolerance, unmatched_lens, metrics_out>>

NextMetrics ==
    \/ CalculateRevenueVariance /\ UNCHANGED <<reconcile_vars, similarity_vars, normalizer_vars, app_vars>>
    \/ SummarizeMetrics /\ UNCHANGED <<reconcile_vars, similarity_vars, normalizer_vars, app_vars>>
    \/ DetectAnomalies /\ UNCHANGED <<reconcile_vars, similarity_vars, normalizer_vars, app_vars>>
    \/ DetectAnomaliesAgain /\ UNCHANGED <<reconcile_vars, similarity_vars, normalizer_vars, app_vars>>

SpecMetrics == InitMetrics /\ [][NextMetrics]_vars

(***************************************************************************)
(* Vocabulary of the properties of the metrics.                            *)
(***************************************************************************)
MatchedRows == 1..Len(matched_df.rows)

\* calculate_revenue_variance has returned the rows of a non-empty table
VarianceDone ==
    mpc = "variance" /\ ~FrameEmpty(matched_df) /\ ~Failed(metrics_out)

\* the client and the internal monetary value of row k of the matched table
ClientValue(k) == matched_df.rows[k][_resolve_revenue_columns(matched_df).client_col]

InternalValue(k) ==
    matched_df.rows[k][_resolve_revenue_columns(matched_df).internal_col]

FloorSum(k) == Floor(ClientValue(k)) + Floor(InternalValue(k))

FloorDelta(k) == Abs(Floor(ClientValue(k)) - Floor(InternalValue(k)))

\* C11: for every matched row with non-negative values whose floored
\* average is not zero, calculate_revenue_variance gives
\* revenue_delta = |floor(c) - floor(i)|,
\* pct_variance = revenue_delta / ((floor(c) + floor(i)) / 2) * 100, and
\* within_tolerance = (pct_variance <= tolerance), the boundary included.
C11_VarianceResult ==
    VarianceDone =>
        \A k \in MatchedRows :
            (ClientValue(k) >= 0 /\ InternalValue(k) >= 0 /\ FloorSum(k) # 0) =>
                LET row == metrics_out.rows[k]
                    pct == row["pct_variance"]
                IN  /\ row["revenue_delta"] = FloorDelta(k)
                    /\ pct[1] = "num"
                    /\ pct[2] * FloorSum(k) = 200 * FloorDelta(k) * pct[3]
                    /\ row["within_tolerance"]
                           = (10 * 200 * FloorDelta(k) <= tolerance * FloorSum(k))

\* A row whose values are not whole and whose pct_variance equals the
\* tolerance exactly has been found within tolerance.
C11_Witness ==
    /\ VarianceDone
    /\ \E k \in MatchedRows :
           /\ ClientValue(k) % 10 # 0
           /\ InternalValue(k) % 10 # 0
           /\ FloorDelta(k) > 0
           /\ 10 * 200 * FloorDelta(k) = tolerance * FloorSum(k)
           /\ metrics_out.rows[k]["within_tolerance"]

\* calculate_revenue_variance was called on a non-empty table whose
\* monetary columns can be located
VarianceCalled ==
    /\ mpc = "variance"
    /\ ~FrameEmpty(matched_df)
    /\ ~Failed(_resolve_revenue_columns(matched_df))

\* row k of the result holds the exact quotient as its pct_variance
PctComputed(k) ==
    LET pct == metrics_out.rows[k]["pct_variance"]
    IN  pct[1] = "num" /\ pct[2] * FloorSum(k) = 200 * FloorDelta(k) * pct[3]

ClientCandidates == {c \in ColumnSet(matched_df) : IsClientColumn(c)}

InternalCandidates ==
    LET P == {c \in ColumnSet(matched_df) : IsInternalColumn(c)}
    IN  IF P = {} THEN ColumnSet(matched_df) \cap {"revenue"} ELSE P

\* C13: on a non-empty table calculate_revenue_variance fails with the
\* schema error unless exactly one client monetary column and exactly one
\* internal monetary column can be located by the name patterns: it fails
\* when no column matches for a side and when two or more columns match
\* the client pattern.
C13_ColumnResolution ==
    (mpc = "variance" /\ ~FrameEmpty(matched_df)) =>
        (Failed(metrics_out)
            <=> ~(Cardinality(ClientCandidates) = 1
                  /\ Cardinality(InternalCandidates) = 1))

\* detect_anomalies has returned the rows of a non-empty table
AnomaliesDone ==
    mpc = "anomalies" /\ ~FrameEmpty(matched_df) /\ ~Failed(metrics_out)

\* The four rules on row k of the matched table.  The client identifier is
\* the cell of order_id_client and the internal identifier the cell of
\* job_id_internal, as in the code; a table without the column has no null
\* identifier.
RateChangeRule(k) ==
    IF FloorSum(k) > 0 THEN 10 * 200 * FloorDelta(k) > tolerance * FloorSum(k)
    ELSE FloorSum(k) = 0 /\ FloorDelta(k) > 0

DuplicateRule(k) ==
    \E j \in MatchedRows :
        /\ j # k
        /\ matched_df.rows[j]["job_date"] = matched_df.rows[k]["job_date"]
        /\ matched_df.rows[j]["site"] = matched_df.rows[k]["site"]

MissingJobRule(k) ==
    /\ "order_id_client" \in ColumnSet(matched_df)
    /\ matched_df.rows[k]["order_id_client"] = NULL

NewJobRule(k) ==
    /\ "job_id_internal" \in ColumnSet(matched_df)
    /\ matched_df.rows[k]["job_id_internal"] = NULL

LastRule(k) ==
    IF NewJobRule(k) THEN "new_job"
    ELSE IF MissingJobRule(k) THEN "missing_job"
    ELSE IF DuplicateRule(k) THEN "duplicate"
    ELSE IF RateChangeRule(k) THEN "rate_change"
    ELSE NULL

AnomaliesAgain == mpc = "anomalies again"

\* C15: detect_anomalies applied a second time, to its own result, gives
\* every row the anomaly and the anomaly_reason of the first application
\* (applied to the same table again it computes the same function of the
\* same arguments).
C15_Idempotent ==
    AnomaliesAgain =>
        /\ ~Failed(metrics_again)
        /\ Len(metrics_again.rows) = Len(metrics_out.rows)
        /\ \A k \in 1..Len(metrics_out.rows) :
               /\ metrics_again.rows[k]["anomaly"] = metrics_out.rows[k]["anomaly"]
               /\ metrics_again.rows[k]["anomaly_reason"]
                      = metrics_out.rows[k]["anomaly_reason"]

\* The second application has run on a table in which the first one
\* labelled a row rate_change, with its percentage and delta as reason, and
\* left another row without label.
C15_Witness ==
    /\ AnomaliesAgain
    /\ ~Failed(metrics_again)
    /\ \E k \in 1..Len(metrics_out.rows) : \E j \in 1..Len(metrics_out.rows) :
           /\ metrics_out.rows[k]["anomaly"] = "rate_change"
           /\ metrics_out.rows[k]["anomaly_reason"][3] > 0
           /\ metrics_again.rows[k]["anomaly"] = "rate_change"
           /\ metrics_out.rows[j]["anomaly"] = NULL

\* summarize_metrics has returned a summary
SummaryDone == mpc = "summary" /\ ~Failed(metrics_out)

MatchedCount == Len(matched_df.rows)

UnmatchedClientCount == unmatched_lens[1]

UnmatchedInternalCount == unmatched_lens[2]

MaxTotal ==
    IF UnmatchedClientCount >= UnmatchedInternalCount
    THEN MatchedCount + UnmatchedClientCount
    ELSE MatchedCount + UnmatchedInternalCount

\* h hundredths is |matched| / total * 100 rounded to two decimals
IsMatchRate(h, total) ==
    LET diff == h * total - 10000 * MatchedCount
    IN  2 * (IF diff < 0 THEN -diff ELSE diff) <= total

\* C16: for every call of summarize_metrics, also when matched is empty,
\* total_jobs = max(|matched| + |unmatchedClient|,
\* |matched| + |unmatchedInternal|), and when total_jobs > 0
\* match_rate = |matched| / total_jobs * 100 rounded to 2 decimals.
C16_SummaryTotals ==
    SummaryDone =>
        /\ metrics_out.total_jobs = MaxTotal
        /\ metrics_out.total_jobs > 0
               => IsMatchRate(metrics_out.match_rate, metrics_out.total_jobs)

\* C16, amended: the maximum when matched is not empty, the sum of the two
\* unmatched counts when it is.
C16_SummaryTotalsSplit ==
    SummaryDone =>
        /\ metrics_out.total_jobs
               = (IF MatchedCount = 0
                  THEN UnmatchedClientCount + UnmatchedInternalCount
                  ELSE MaxTotal)
        /\ metrics_out.total_jobs > 0
               => IsMatchRate(metrics_out.match_rate, metrics_out.total_jobs)

\* A summary of one matched row, more unmatched internal rows than
\* unmatched client rows, and a match rate that is not a whole percentage.
C16_Witness ==
    /\ SummaryDone
    /\ MatchedCount = 1
    /\ UnmatchedClientCount = 1
    /\ UnmatchedInternalCount = 2
    /\ metrics_out.total_jobs = 3
    /\ metrics_out.match_rate = 3333

\* C17: when matched is empty summarize_metrics returns matched_jobs = 0,
\* match_rate = 0, avg_variance_pct = 0, within_tolerance_pct = 0,
\* total_variance_amount = 0, the two unmatched counts equal to the sizes
\* of the unmatched tables, and total_jobs their sum; nothing is divided,
\* so nothing fails and no value is NaN.
C17_DegenerateSummary ==
    (mpc = "summary" /\ FrameEmpty(matched_df)) =>
        /\ ~Failed(metrics_out)
        /\ metrics_out.matched_jobs = 0
        /\ metrics_out.match_rate = 0
        /\ metrics_out.avg_variance_pct = <<"num", 0, 100>>
        /\ metrics_out.within_tolerance_pct = 0
        /\ metrics_out.total_variance_amount = 0
        /\ metrics_out.unmatched_client_jobs = UnmatchedClientCount
        /\ metrics_out.unmatched_internal_jobs = UnmatchedInternalCount
        /\ metrics_out.total_jobs = UnmatchedClientCount + UnmatchedInternalCount

\* The summary of an empty matched table with one unmatched client row and
\* two unmatched internal rows: three jobs.
C17_Witness ==
    /\ mpc = "summary"
    /\ FrameEmpty(matched_df)
    /\ UnmatchedClientCount = 1
    /\ UnmatchedInternalCount = 2
    /\ metrics_out.total_jobs = 3

(***************************************************************************)
(* SIMILARITY: calls _similarity(a, b) of src/src/matching/matcher.py.     *)
(* The arguments are None or strings: every string of at most MaxSimLen    *)
(* letters, and some strings with leading or trailing blanks.              *)
(***************************************************************************)
MaxSimLen == 3

SimLetters == {"A", "b", "c"}

Strings(chars, n) == UNION {[1..k -> chars] : k \in 0..n}

PaddedStrings ==
    {<<" ">>, <<" ", " ">>, <<" ", "A">>, <<"b", " ">>, <<" ", "b", "c", " ">>}

SimArguments == Strings(SimLetters, MaxSimLen) \cup PaddedStrings \cup {None}

InitSimilarity ==
    /\ spc = "call"
    /\ sim_a \in SimArguments
    /\ sim_b \in SimArguments
    /\ sim_out = <<0, 1>>
    /\ ReconcileIdle
    /\ MetricsIdle
    /\ NormalizerIdle
    /\ AppIdle

\* lines 28-32
Similarity ==
    /\ spc = "call"
    /\ sim_out' = _similarity(sim_a, sim_b)
    /\ spc' = "returned"
    /\ UNCHANGED <<sim_a, sim_b>>

NextSimilarity ==
    Similarity /\ UNCHANGED <<reconcile_vars, metrics_vars, normalizer_vars, app_vars>>

SpecSimilarity == InitSimilarity /\ [][NextSimilarity]_vars

SimilarityReturned == spc = "returned"

RatEq(x, y) == x[1] * y[2] = y[1] * x[2]

\* C18: _similarity(a, b) = _similarity(b, a) for all strings a and b.
C18_Symmetric ==
    SimilarityReturned => RatEq(sim_out, _similarity(sim_b, sim_a))

InUnitInterval(x) == x[2] > 0 /\ 0 <= x[1] /\ x[1] <= x[2]

EmptyOrNone(s) == s = None \/ s = <<>>

\* C19: _similarity(a, b) is in [0, 1]; _similarity(a, a) = 1.0 for every
\* string a; and _similarity is 0.0 whenever an argument is empty or None.
C19_Bounds ==
    SimilarityReturned =>
        /\ InUnitInterval(sim_out)
        /\ (sim_a = sim_b /\ IsStr(sim_a)) => RatEq(sim_out, <<1, 1>>)
        /\ (EmptyOrNone(sim_a) \/ EmptyOrNone(sim_b)) => RatEq(sim_out, <<0, 1>>)

\* C19, amended: _similarity(a, a) = 1.0 for every string a that is not
\* empty, a string of blanks included; _similarity("", "") is 0.0.
C19_BoundsNonEmpty ==
    SimilarityReturned =>
        /\ InUnitInterval(sim_out)
        /\ (sim_a = sim_b /\ ~EmptyOrNone(sim_a)) => RatEq(sim_out, <<1, 1>>)
        /\ (EmptyOrNone(sim_a) \/ EmptyOrNone(sim_b)) => RatEq(sim_out, <<0, 1>>)

\* _similarity has returned 1.0 for two equal strings of three letters,
\* one of them a capital.
C19_Witness ==
    /\ SimilarityReturned
    /\ sim_a = sim_b
    /\ IsStr(sim_a)
    /\ Len(sim_a) = 3
    /\ sim_a[1] = "A"
    /\ sim_a[2] # sim_a[3]
    /\ RatEq(sim_out, <<1, 1>>)

(***************************************************************************)
(* NORMALIZER (src/src/data/normalizer.py).  A raw job_date is a text or   *)
(* NULL and a parsed one <<year, month, day>>, NaT being <<0, 0, 0>>.      *)
(***************************************************************************)
address_mapping ==
    <<<< <<"s", "t", ".">>, <<"s", "t", "r", "e", "e", "t">> >>,
      << <<"r", "d", ".">>, <<"r", "o", "a", "d">> >>,
      << <<"a", "v", "e">>, <<"a", "v", "e", "n", "u", "e">> >>,
      << <<"b", "l", "v", "d">>, <<"b", "o", "u", "l", "e", "v", "a", "r", "d">> >>,
      << <<"h", "w", "y">>, <<"h", "i", "g", "h", "w", "a", "y">> >>,
      << <<"p", "l", "z">>, <<"p", "l", "a", "z", "a">> >> >>

\* for abbr, full in address_mapping.items(): value = value.replace(...)
RECURSIVE ReplaceAll(_, _)
ReplaceAll(value, mapping) ==
    IF mapping = <<>> THEN value
    ELSE ReplaceAll(Replace(value, Head(mapping)[1], Head(mapping)[2]), Tail(mapping))

\* lines 25-49
_normalize_text(value) ==
    IF ~IsStr(value) THEN <<>>
    ELSE Title(ReplaceAll(Strip(Lower(value)), address_mapping))

\* lines 52-62
_normalize_service_type(value) ==
    IF ~IsStr(value) THEN <<>> ELSE Upper(Strip(value))

NaT == <<0, 0, 0>>

\* pd.to_datetime(value, errors="coerce")
to_datetime(value) ==
    CASE value = "2025-10-01" -> <<2025, 10, 1>>
      [] value = "2025-10-02" -> <<2025, 10, 2>>
      [] OTHER -> NaT

required_cols == <<"job_date", "site", "service_type">>

\* line 80
MissingCols(df) == SelectSeq(required_cols, LAMBDA c : ~HasColumn(df, c))

\* Mutant of NormalizeRows: the rows whose date cannot be parsed are
\* dropped.
NormalizeRows_dropna(df) ==
    LET rows == SelectSeq(df.rows, LAMBDA r : to_datetime(r["job_date"]) # NaT)
    IN  [k \in 1..Len(rows) |->
            [rows[k] EXCEPT !["job_date"] = to_datetime(@),
                            !["site"] = _normalize_text(@),
                            !["service_type"] = _normalize_service_type(@)]]

\* lines 86-93, on a table that has the three columns
NormalizeRows(df) ==
    [k \in 1..Len(df.rows) |->
        [df.rows[k] EXCEPT !["job_date"] = to_datetime(@),
                           !["site"] = _normalize_text(@),
                           !["service_type"] = _normalize_service_type(@)]]

\* lines 68-98; [error |-> ..., missing |-> ...] stands for the KeyError
\* of line 83 and the columns it names
normalize_dataframe(df) ==
    IF FrameEmpty(df) THEN df
    ELSE IF MissingCols(df) # <<>>
    THEN [error |-> "KeyError: Missing columns", missing |-> MissingCols(df)]
    ELSE Frame(df.cols, NormalizeRows(df))

(***************************************************************************)
(* Calls of normalize_dataframe: tables of at most MaxNormRows rows over   *)
(* every subset of the three required columns, with or without a           *)
(* passthrough column, and the table without columns.                      *)
(***************************************************************************)
MaxNormRows == 2

RawDates == {"2025-10-01", "10/2025", NULL}

RawSites == {<<" ", "5", "t", "h", " ", "a", "v", "e">>, <<"M", "A", "I", "N", " ", "S", "t", ".">>, None}

RawTypes == {<<" ", "r", "e", "p", "a", "i", "r">>, None}

NormSchemas ==
    {SelectSeq(required_cols, LAMBDA c : c \in S) \o p :
        S \in SUBSET KeyCols, p \in {<<>>, <<"order_id">>}}

RawCell(c, d, site, t) ==
    CASE c = "job_date" -> d
      [] c = "site" -> site
      [] c = "service_type" -> t
      [] c = "order_id" -> "1"

RawRows(cols) ==
    {[c \in {cols[k] : k \in 1..Len(cols)} |-> RawCell(c, d, site, t)] :
        d \in RawDates, site \in RawSites, t \in RawTypes}

RawFrames(n) ==
    UNION {{Frame(cols, q) : q \in [1..n -> RawRows(cols)]} : cols \in NormSchemas}

InitNormalizer ==
    /\ npc = "call"
    /\ \E n \in 0..MaxNormRows : norm_df \in RawFrames(n)
    /\ norm_out = NoResult
    /\ ReconcileIdle
    /\ MetricsIdle
    /\ SimilarityIdle
    /\ AppIdle

\* normalize_dataframe(norm_df)
NormalizeDataframe ==
    /\ npc = "call"
    /\ norm_out' = normalize_dataframe(norm_df)
    /\ npc' = (IF Failed(normalize_dataframe(norm_df)) THEN "raised" ELSE "returned")
    /\ UNCHANGED norm_df

NextNormalizer ==
    NormalizeDataframe /\ UNCHANGED <<reconcile_vars, metrics_vars, similarity_vars, app_vars>>

SpecNormalizer == InitNormalizer /\ [][NextNormalizer]_vars

NormalizerDone == npc # "call"

\* the required columns that norm_df lacks
Lacking == {c \in KeyCols : c \notin ColumnSet(norm_df)}

\* the result has the rows of the input, in number and in every cell of
\* the passthrough columns
RowsPreserved ==
    /\ ~Failed(norm_out)
    /\ norm_out.cols = norm_df.cols
    /\ Len(norm_out.rows) = Len(norm_df.rows)
    /\ \A k \in 1..Len(norm_df.rows) :
           \A c \in ColumnSet(norm_df) \ KeyCols :
               norm_out.rows[k][c] = norm_df.rows[k][c]

SchemaErrorRaised ==
    /\ Failed(norm_out)
    /\ {norm_out.missing[k] : k \in 1..Len(norm_out.missing)} = Lacking

\* C20: normalize_dataframe fails with the schema error, naming the
\* missing columns, for every table that lacks one of job_date, site,
\* service_type, whatever its number of rows, zero included; otherwise it
\* returns a table with the same number of rows and the passthrough
\* columns preserved.
C20_SchemaCheck ==
    NormalizerDone => IF Lacking # {} THEN SchemaErrorRaised ELSE RowsPreserved

\* C20, amended: a table without rows or without columns is returned as it
\* is, whatever columns it lacks.
C20_SchemaCheckNonEmpty ==
    NormalizerDone =>
        IF FrameEmpty(norm_df) THEN norm_out = norm_df
        ELSE IF Lacking # {} THEN SchemaErrorRaised
        ELSE RowsPreserved

\* The call on a table of two rows that lacks site and service_type has
\* raised the error naming the two columns.
C20_Witness ==
    /\ npc = "raised"
    /\ Len(norm_df.rows) = 2
    /\ "order_id" \in ColumnSet(norm_df)
    /\ Lacking = {"site", "service_type"}
    /\ norm_out.missing = <<"site", "service_type">>

(***************************************************************************)
(* APPLICATION (src/src/app.py): one run of the script, from the data      *)
(* loading to the anomaly classification.  The script stops (st.stop) or   *)
(* ends with an exception that nothing catches ("crashed") or reaches its  *)
(* end ("done").                                                           *)
(***************************************************************************)
MaxAppRows == 1

\* The text of a parsed date, NULL for NaT: pandas joins and groups on the
\* value of a Timestamp and takes NaT for a missing value.
isoformat(d) ==
    CASE d = <<2025, 10, 1>> -> "2025-10-01"
      [] d = <<2025, 10, 2>> -> "2025-10-02"
      [] OTHER -> NULL

\* The table reconcile is given when it is given the result of
\* normalize_dataframe (line 55); a result without rows has no cell
TimestampTable(df) ==
    Table(ColumnSet(df),
          [k \in 1..Len(df.rows) |->
              [c \in ColumnSet(df) |->
                  IF c = "job_date" THEN isoformat(df.rows[k][c])
                  ELSE df.rows[k][c]]])

\* The table reconcile is given when it is given the result of pd.read_csv
\* (line 64)
CsvTable(df) == Table(ColumnSet(df), df.rows)

\* The first table reconcile returns: pd.concat of the deterministic and
\* the fuzzy pairs (line 151), its columns those of the merge
AllMatchesFrame(cdf, idf, matches) ==
    LET present == cdf.cols \cup idf.cols \cup {"confidence", "match_type"}
        cols == SelectSeq(ReconcileCols, LAMBDA c : c \in present)
    IN  Frame(cols,
              [k \in 1..Len(matches) |->
                  [c \in {cols[j] : j \in 1..Len(cols)} |->
                      CASE c = "confidence" -> matches[k].confidence
                        [] c = "match_type" -> matches[k].match_type
                        [] OTHER -> matches[k].row[c]]])

\* The object calculate_revenue_variance returns when it is given the
\* object o holding df: o itself (line 45) or the result of assign (line 54)
variance_object(o, df) == IF FrameEmpty(df) THEN o ELSE assign(o)

\* except ValueError (line 103)
ValueErrors ==
    {"ValueError: empty input", "ValueError: no overlapping columns",
     "ValueError: no merge keys"}

(***************************************************************************)
(* Runs of the script.  The sources hold tables of at most MaxAppRows rows *)
(* with the columns of the sample data, one-row tables that lack the site  *)
(* or the monetary column and, for the fetcher that failed, the table      *)
(* without columns.                                                        *)
(***************************************************************************)
AppClientCols == <<"order_id", "job_date", "site", "service_type", "amount">>

AppLedgerCols == <<"job_id", "job_date", "site", "service_type", "revenue">>

AppDates == {"2025-10-01", "2025-10-02"}

AppClientSites == {<<"R", "D", ".">>, <<"a">>}

AppLedgerSites == {<<" ", "r", "o", "a", "d">>, <<"a", "b">>}

AppAmounts == {1000, 1050}

AppRevenues == {1000}

AppCell(c, id, d, site, value) ==
    CASE c \in {"order_id", "job_id"} -> id
      [] c = "job_date" -> d
      [] c = "site" -> site
      [] c = "service_type" -> <<"x">>
      [] c \in {"amount", "revenue"} -> value

Without(cols, col) == SelectSeq(cols, LAMBDA c : c # col)

SourceFrames(cols, sites, values, n) ==
    {Frame(cols, [k \in 1..n |->
                     [c \in {cols[j] : j \in 1..Len(cols)} |->
                         AppCell(c, ToString(k), q[k][1], q[k][2], q[k][3])]]) :
        q \in [1..n -> AppDates \X sites \X values]}

ClientSources ==
    UNION {SourceFrames(AppClientCols, AppClientSites, AppAmounts, n) :
              n \in 0..MaxAppRows}
    \cup SourceFrames(Without(AppClientCols, "site"), {<<"a">>}, {1050}, 1)
    \cup SourceFrames(Without(AppClientCols, "amount"), {<<"a">>}, {1050}, 1)

LedgerSources ==
    UNION {SourceFrames(AppLedgerCols, AppLedgerSites, AppRevenues, n) :
              n \in 0..MaxAppRows}

NoColumns == Frame(<<>>, <<>>)

\* the sidebar: "Use sample data" is ticked and the fetcher read its files
\* or failed
InitSample ==
    /\ auto_load = TRUE
    /\ uploaded = FALSE
    /\ raw_client \in ClientSources \cup {NoColumns}
    /\ raw_ledger \in LedgerSources \cup {NoColumns}

\* "Use sample data" is not ticked and two files are uploaded
InitUpload ==
    /\ auto_load = FALSE
    /\ uploaded = TRUE
    /\ raw_client \in ClientSources
    /\ raw_ledger \in LedgerSources

\* "Use sample data" is not ticked and a file is missing
InitNoUpload ==
    /\ auto_load = FALSE
    /\ uploaded = FALSE
    /\ raw_client = NoColumns
    /\ raw_ledger = NoColumns

InitApp ==
    /\ apc = "load"
    /\ InitSample \/ InitUpload \/ InitNoUpload
    /\ variance_df = NoResult
    /\ anomalies_df = NoResult
    /\ calls = <<>>
    /\ pc = "off"
    /\ client_in = Table({}, <<>>)
    /\ internal_in = Table({}, <<>>)
    /\ threshold = DefaultThreshold
    /\ client_df = Table({}, <<>>)
    /\ internal_df = Table({}, <<>>)
    /\ join_keys = <<>>
    /\ det_matched = <<>>
    /\ unmatched_client = <<>>
    /\ unmatched_internal = <<>>
    /\ fuzzy_matched = <<>>
    /\ all_matches = <<>>
    /\ client_unmatched = <<>>
    /\ internal_unmatched = <<>>
    /\ error = "none"
    /\ mpc = "off"
    /\ matched_df = Frame(<<>>, <<>>)
    /\ tolerance \in Tolerances
    /\ unmatched_lens = <<0, 0>>
    /\ metrics_out = NoResult
    /\ metrics_again = NoResult
    /\ SimilarityIdle
    /\ NormalizerIdle

sidebar == <<auto_load, uploaded, raw_client, raw_ledger, tolerance>>

untouched == <<mpc, metrics_again, similarity_vars, normalizer_vars>>

reconcile_locals ==
    <<threshold, client_df, internal_df, join_keys, det_matched,
      unmatched_client, unmatched_internal, fuzzy_matched, all_matches,
      client_unmatched, internal_unmatched, error>>

\* lines 53-57 and 75-78
DataLoadingSample ==
    /\ apc = "load"
    /\ auto_load
    /\ LET c == normalize_dataframe(raw_client)
           l == normalize_dataframe(raw_ledger)
       IN  IF Failed(c)
           THEN /\ calls' = calls \o <<<<"load_client_data", "client">>,
                                       <<"normalize_dataframe", "client">>>>
                /\ apc' = "stopped"
                /\ UNCHANGED <<client_in, internal_in>>
           ELSE /\ calls' = calls \o <<<<"load_client_data", "client">>,
                                       <<"normalize_dataframe", "client">>,
                                       <<"load_internal_data", "ledger">>,
                                       <<"normalize_dataframe", "ledger">>>>
                /\ client_in' = TimestampTable(c)
                /\ IF Failed(l)
                   THEN apc' = "stopped" /\ UNCHANGED internal_in
                   ELSE apc' = "loaded" /\ internal_in' = TimestampTable(l)
    /\ UNCHANGED <<pc, reconcile_locals, sidebar, untouched, matched_df,
                   unmatched_lens, metrics_out, variance_df, anomalies_df>>

\* lines 59-66
DataLoadingUpload ==
    /\ apc = "load"
    /\ ~auto_load
    /\ uploaded
    /\ client_in' = CsvTable(raw_client)
    /\ internal_in' = CsvTable(raw_ledger)
    /\ calls' = calls \o <<<<"read_csv", "client">>, <<"read_csv", "ledger">>>>
    /\ apc' = "loaded"
    /\ UNCHANGED <<pc, reconcile_locals, sidebar, untouched, matched_df,
                   unmatched_lens, metrics_out, variance_df, anomalies_df>>

\* lines 67-70
DataLoadingStop ==
    /\ apc = "load"
    /\ ~auto_load
    /\ ~uploaded
    /\ apc' = "stopped"
    /\ UNCHANGED <<pc, client_in, internal_in, reconcile_locals, sidebar,
                   untouched, matched_df, unmatched_lens, metrics_out,
                   variance_df, anomalies_df, calls>>

\* line 99: the call of reconcile(client_df, ledger_df)
Reconciliation ==
    /\ apc = "loaded"
    /\ pc' = "reconcile"
    /\ calls' = Append(calls, <<"reconcile", "client, ledger">>)
    /\ apc' = "reconcile"
    /\ UNCHANGED <<client_in, internal_in, reconcile_locals, sidebar,
                   untouched, matched_df, unmatched_lens, metrics_out,
                   variance_df, anomalies_df>>

\* lines 99-101: reconcile has returned its three tables
ReconciliationReturned ==
    /\ apc = "reconcile"
    /\ pc = "returned"
    /\ matched_df' = AllMatchesFrame(client_df, internal_df, all_matches)
    /\ unmatched_lens' = <<Len(client_unmatched), Len(internal_unmatched)>>
    /\ apc' = "metrics"
    /\ UNCHANGED <<pc, client_in, internal_in, reconcile_locals, sidebar,
                   untouched, metrics_out, variance_df, anomalies_df, calls>>

\* lines 103-106: a ValueError stops the script, another exception ends it
ReconciliationFailed ==
    /\ apc = "reconcile"
    /\ pc = "raised"
    /\ apc' = (IF error \in ValueErrors THEN "stopped" ELSE "crashed")
    /\ UNCHANGED <<pc, client_in, internal_in, reconcile_locals, sidebar,
                   untouched, matched_df, unmatched_lens, metrics_out,
                   variance_df, anomalies_df, calls>>

\* line 114
MetricsAndVariance ==
    /\ apc = "metrics"
    /\ metrics_out' = summarize_metrics(matched_df, unmatched_lens[1],
                                        unmatched_lens[2], tolerance)
    /\ calls' = Append(calls, <<"summarize_metrics", "matched">>)
    /\ apc' = (IF Failed(summarize_metrics(matched_df, unmatched_lens[1],
                                           unmatched_lens[2], tolerance))
               THEN "crashed" ELSE "summary")
    /\ UNCHANGED <<pc, client_in, internal_in, reconcile_locals, sidebar,
                   untouched, matched_df, unmatched_lens, variance_df,
                   anomalies_df>>

\* line 130: the result and the object that holds it
ToleranceVariance ==
    /\ apc = "summary"
    /\ LET v == calculate_revenue_variance(matched_df, tolerance)
       IN  IF Failed(v)
           THEN apc' = "crashed" /\ UNCHANGED variance_df
           ELSE /\ apc' = "variance"
                /\ variance_df' =
                       [object |-> variance_object(<<"matched_df">>, matched_df),
                        table |-> v]
    /\ calls' = Append(calls, <<"calculate_revenue_variance", "matched">>)
    /\ UNCHANGED <<pc, client_in, internal_in, reconcile_locals, sidebar,
                   untouched, matched_df, unmatched_lens, metrics_out,
                   anomalies_df>>

\* lines 131-133 and 178-180: the rows that are not within tolerance
ToleranceEnforcement ==
    /\ apc = "variance"
    /\ LET t == variance_df.table
       IN  apc' = (IF ~HasColumn(t, "within_tolerance") THEN "crashed"
                   ELSE IF \A k \in 1..Len(t.rows) : t.rows[k]["within_tolerance"]
                   THEN "done"
                   ELSE "anomalies")
    /\ UNCHANGED <<pc, client_in, internal_in, reconcile_locals, sidebar,
                   untouched, matched_df, unmatched_lens, metrics_out,
                   variance_df, anomalies_df, calls>>

\* anomalies_df["review_status"] = "pending" (line 139)
Reviewed(labelled) ==
    Assign(labelled, "review_status",
           [k \in 1..Len(labelled.rows) |-> "pending"])

\* lines 138-139: detect_anomalies is given the object of line 130; its
\* lines 118-139 store into the object its line 117 returns, and line 139
\* of the script into the object it returns
AnomalyClassification ==
    /\ apc = "anomalies"
    /\ \E labelled \in {detect_anomalies(variance_df.table, tolerance)} :
           IF Failed(labelled)
           THEN /\ apc' = "crashed"
                /\ UNCHANGED <<matched_df, variance_df, anomalies_df>>
           ELSE \E reviewed \in {Reviewed(labelled)} :
                \E df \in {variance_object(variance_df.object, variance_df.table)} :
                    /\ apc' = "done"
                    /\ anomalies_df' = [object |-> df, table |-> reviewed]
                    /\ variance_df' =
                           [object |-> variance_df.object,
                            table |-> After(variance_df.object, variance_df.table,
                                            df, reviewed)]
                    /\ matched_df' =
                           After(<<"matched_df">>, matched_df, df, reviewed)
    /\ calls' = Append(calls, <<"detect_anomalies", "matched">>)
    /\ UNCHANGED <<pc, client_in, internal_in, reconcile_locals, sidebar,
                   untouched, unmatched_lens, metrics_out>>

NextApp ==
    \/ DataLoadingSample
    \/ DataLoadingUpload
    \/ DataLoadingStop
    \/ Reconciliation
    \/ ReconcileEntry
    \/ DeterministicMatch
    \/ GetUnmatched
    \/ FuzzyMatch
    \/ Combine
    \/ ReconciliationReturned
    \/ ReconciliationFailed
    \/ MetricsAndVariance
    \/ ToleranceVariance
    \/ ToleranceEnforcement
    \/ AnomalyClassification

SpecApp == InitApp /\ [][NextApp]_vars

(***************************************************************************)
(* Vocabulary of the properties of the application.                        *)
(***************************************************************************)
\* the positions in calls of the calls of f
CallsOf(f) == {k \in 1..Len(calls) : calls[k][1] = f}

\* both tables went through normalize_dataframe before position r
NormalizedBefore(r) ==
    \A t \in {"client", "ledger"} :
        \E k \in 1..(r - 1) : calls[k] = <<"normalize_dataframe", t>>

\* the variance, anomaly and summary stages
LaterStages ==
    {"summarize_metrics", "calculate_revenue_variance", "detect_anomalies"}

\* a later stage has been called only after a call of reconcile, which has
\* returned its tables
AfterReconcile ==
    \A k \in 1..Len(calls) :
        calls[k][1] \in LaterStages =>
            /\ \E r \in 1..(k - 1) : calls[r][1] = "reconcile"
            /\ pc = "returned"

\* C21: on every path of the script on which reconcile is called, on the
\* sample-data path and on the uploaded-CSV path alike, both the client
\* table and the internal table have been passed through
\* normalize_dataframe before, and the variance, anomaly and summary stages
\* are called only after reconcile has returned successfully.
C21_PipelineOrder ==
    /\ \A r \in CallsOf("reconcile") : NormalizedBefore(r)
    /\ AfterReconcile

\* the tables the script has bound client_df and ledger_df to
LoadedClient ==
    IF auto_load THEN TimestampTable(normalize_dataframe(raw_client))
    ELSE CsvTable(raw_client)

LoadedLedger ==
    IF auto_load THEN TimestampTable(normalize_dataframe(raw_ledger))
    ELSE CsvTable(raw_ledger)

ReconcileCalled == pc # "off"

\* reconcile is past its lines 132-140 and has called its stages
StagesCalled ==
    pc \in {"deterministic", "leftovers", "fuzzy", "combine", "returned"}

\* the script holds the tables reconcile returned
ReconcileResultHeld == pc = "returned" /\ apc # "reconcile"

VarianceHeld == variance_df # NoResult

AnomaliesHeld == anomalies_df # NoResult

\* Every table is as it was when it was passed: the script's two tables
\* (reconcile), the two copies reconcile passes to deterministic_match,
\* get_unmatched and fuzzy_match, the matched table the script passes to
\* summarize_metrics and calculate_revenue_variance, and the table it
\* passes to detect_anomalies.
ArgumentsUnchanged ==
    /\ ReconcileCalled =>
           /\ client_in = LoadedClient
           /\ internal_in = LoadedLedger
    /\ StagesCalled =>
           /\ client_df = NormalizeSite(client_in)
           /\ internal_df = NormalizeSite(internal_in)
    /\ ReconcileResultHeld =>
           matched_df = AllMatchesFrame(client_df, internal_df, all_matches)
    /\ VarianceHeld =>
           variance_df.table = calculate_revenue_variance(matched_df, tolerance)

LeftoversDone == pc \in {"fuzzy", "combine", "returned"}

\* the pairs of matches of the given type
PairsOfType(matches, type) ==
    {n \in 1..Len(matches) : matches[n].match_type = type}

\* C23: the leftover tables given to fuzzy_match hold exactly the rows
\* whose join-key tuple is in no deterministic pair, that is the rows in no
\* deterministic pair; no client row and no internal row is both in a
\* deterministic pair and in a fuzzy pair of all_matches; and no leftover
\* client row has the join-key tuple of a leftover internal row.
C23_PhasesDisjoint ==
    /\ LeftoversDone =>
          /\ \A k \in ClientRows :
                /\ InSeq(k, unmatched_client) <=>
                       \A n \in 1..Len(det_matched) :
                           KeyOf(det_matched[n].row, join_keys)
                               # KeyOf(client_df.rows[k], join_keys)
                /\ InSeq(k, unmatched_client) <=> PairsOfClient(det_matched, k) = {}
          /\ \A k \in InternalRows :
                /\ InSeq(k, unmatched_internal) <=>
                       \A n \in 1..Len(det_matched) :
                           KeyOf(det_matched[n].row, join_keys)
                               # KeyOf(internal_df.rows[k], join_keys)
                /\ InSeq(k, unmatched_internal) <=> PairsOfInternal(det_matched, k) = {}
          /\ \A c \in ClientRows : \A i \in InternalRows :
                InSeq(c, unmatched_client) /\ InSeq(i, unmatched_internal)
                    => ~SameKey(c, i)
    /\ Returned =>
          /\ \A k \in ClientRows :
                \A n \in PairsOfClient(all_matches, k) :
                \A m \in PairsOfClient(all_matches, k) :
                    all_matches[n].match_type = all_matches[m].match_type
          /\ \A k \in InternalRows :
                \A n \in PairsOfInternal(all_matches, k) :
                \A m \in PairsOfInternal(all_matches, k) :
                    all_matches[n].match_type = all_matches[m].match_type

\* One run has returned an exact pair and a fuzzy pair, of different rows
\* on both sides.
C23_Witness ==
    /\ Returned
    /\ PairsOfType(all_matches, "deterministic") # {}
    /\ PairsOfType(all_matches, "fuzzy") # {}
    /\ Len(unmatched_client) = 1
    /\ Len(unmatched_internal) = 1

(***************************************************************************)
(* The tolerance flag and the rate_change rule (specification              *)
(* SpecMetrics).                                                           *)
(***************************************************************************)
\* the floored client and internal values of row k are both zero
BothZero(k) == Floor(ClientValue(k)) = 0 /\ Floor(InternalValue(k)) = 0

\* no rule after rate_change holds on row k
NoLaterRule(k) == ~DuplicateRule(k) /\ ~MissingJobRule(k) /\ ~NewJobRule(k)

\* row k of the result is among the rows line 131 of the script selects
ExceedsTolerance(k) == ~metrics_out.rows[k]["within_tolerance"]

\* C24: for every row of a matched table, within_tolerance is false if
\* and only if the rate_change condition pct_variance > tolerance holds,
\* except for the rows whose floored client and internal values are both
\* zero: their pct_variance is NaN, their within_tolerance is false and
\* the rate_change rule does not fire, so they are among the rows that
\* exceed tolerance and carry no rate_change label.
C24_ToleranceAgreement ==
    /\ VarianceDone =>
          \A k \in MatchedRows :
              /\ ExceedsTolerance(k) <=> (RateChangeRule(k) \/ BothZero(k))
              /\ BothZero(k) => metrics_out.rows[k]["pct_variance"] = NaN
    /\ AnomaliesDone =>
          \A k \in MatchedRows :
              /\ ExceedsTolerance(k) <=> (RateChangeRule(k) \/ BothZero(k))
              /\ BothZero(k) =>
                    /\ ~RateChangeRule(k)
                    /\ ExceedsTolerance(k)
                    /\ metrics_out.rows[k]["anomaly"] # "rate_change"
              /\ NoLaterRule(k) =>
                    /\ metrics_out.rows[k]["anomaly"] = "rate_change"
                           <=> (ExceedsTolerance(k) /\ ~BothZero(k))
                    /\ BothZero(k) => metrics_out.rows[k]["anomaly"] = NULL

\* detect_anomalies has returned two rows: one of values 0.5 and 0.2, not
\* within tolerance and without a label, and one that is 4.9 % apart and
\* labelled rate_change.
C24_Witness ==
    /\ AnomaliesDone
    /\ Len(matched_df.rows) = 2
    /\ BothZero(1)
    /\ ExceedsTolerance(1)
    /\ metrics_out.rows[1]["anomaly"] = NULL
    /\ ExceedsTolerance(2)
    /\ metrics_out.rows[2]["anomaly"] = "rate_change"

=============================================================================
